---- MODULE Spec2Model ----
(***************************************************************************)
(* ArduinoThread: the pseudo thread class `thread` (thread.h), its example *)
(* subclass `_blink` and the sketch's setup()/loop().                      *)
(*                                                                         *)
(* unsigned long / long are 32 bits wide.  TLC's integers stop at 2^31-1,  *)
(* so an unsigned long is the pair <<hi, lo>> of its two 16-bit halves and *)
(* all unsigned arithmetic is done on the halves, modulo 2^32.  A long     *)
(* (signed 32 bit) fits a TLC integer and is kept as one.                  *)
(***************************************************************************)
EXTENDS Integers, Sequences, FiniteSets, TLC

VARIABLES
  now,      \* true time since boot in microseconds, unwrapped: <<hi, lo>>, hi unbounded
  t_blink,  \* the task objects: index -> fields of the object (NULL before `new`)
  armed,    \* per object: the true time `at` which _last was assigned last,
            \* and `by` what: "construct", "set" or "execute"
  pc,       \* position of the sketch: "api", "setup" or "loop"
  i,        \* loop variable of setup() / loop()
  ticks,    \* number of clock advances made so far
  fires,    \* per object: the computation() calls that loop() has caused so far
  polled,   \* the objects loop() polled last, oldest first, at most _n of them
  hist      \* the last operation: its name, object, argument, result and pre-state

vars == <<now, t_blink, armed, pc, i, ticks, fires, polled, hist>>

----------------------------------------------------------------------------
(* Bounds of the model *)

MaxTicks == 2

----------------------------------------------------------------------------
(* 32-bit unsigned arithmetic on <<hi, lo>> *)

Half == 256 * 256

\* the unsigned long with value n, for 0 <= n < 2^31
W(n) == <<n \div Half, n % Half>>

Add32(a, b) ==
  LET s == a[2] + b[2]
  IN  <<(a[1] + b[1] + s \div Half) % Half, s % Half>>

Sub32(a, b) ==
  LET d == a[2] - b[2]
      borrow == IF d < 0 THEN 1 ELSE 0
  IN  <<(a[1] - b[1] - borrow) % Half, d % Half>>

\* a * k modulo 2^32, for 0 <= k <= 1000
Mul32(a, k) ==
  LET p == a[2] * k
  IN  <<(a[1] * k + p \div Half) % Half, p % Half>>

\* quotient and remainder of a by k, for 0 < k <= 1000
Div32(a, k) == <<a[1] \div k, ((a[1] % k) * Half + a[2]) \div k>>
Rem32(a, k) == ((a[1] % k) * Half + a[2]) % k

\* (long)a: the same 32 bits read as a signed value
ToLong(a) ==
  IF a[1] < Half \div 2 THEN a[1] * Half + a[2]
                        ELSE (a[1] - Half) * Half + a[2]

\* micros(): the hardware counter, the true time modulo 2^32
micros == <<now[1] % Half, now[2]>>

\* unwrapped time: sum, order and difference
AddWide(a, b) ==
  LET s == a[2] + b[2]
  IN  <<a[1] + b[1] + s \div Half, s % Half>>

GeWide(a, b) == a[1] > b[1] \/ (a[1] = b[1] /\ a[2] >= b[2])

SubWide(a, b) ==
  LET d == a[2] - b[2]
      borrow == IF d < 0 THEN 1 ELSE 0
  IN  <<a[1] - b[1] - borrow, d % Half>>

----------------------------------------------------------------------------
(* class thread / class _blink: the operations, as functions of the object *)
(* t and of the value clk that micros() returns during the call            *)

\* _blink::computation(): toggle the LED
computation(t) ==
  [t EXCEPT !.level  = IF t._state THEN "LOW" ELSE "HIGH",
            !._state = ~t._state]

\* faulty variant of passed: the plain unsigned test _now >= _last + _time
passed_unsignedCompare(t, _now) ==
  IF GeWide(_now, Add32(t._last, t._time)) THEN 0 ELSE -1

\* faulty variant of passed: the period left out of the due time
passed_noPeriod(t, _now) == ToLong(Sub32(_now, t._last))

\* long passed = (long)(_now - (_last+_time));
passed(t, _now) == ToLong(Sub32(_now, Add32(t._last, t._time)))

\* faulty variant of overrun: passed > timeout
overrun_strict(t, p) == t.timeout >= 0 /\ p > t.timeout

\* timeout >= 0 && passed >= timeout
overrun(t, p) == t.timeout >= 0 /\ p >= t.timeout

\* faulty variant of execute: error = (timeout >= 0 && passed >= timeout)
execute_errorAssign(t, clk) ==
  LET p == passed(t, clk)
  IN  IF p >= 0
        THEN [th |-> computation([t EXCEPT !.error = overrun(t, p),
                                           !._last = clk]),
              invoked |-> 1]
        ELSE [th |-> t, invoked |-> 0]

\* faulty variant of execute: a deadline miss returns before the computation
execute_skipOnMiss(t, clk) ==
  LET p == passed(t, clk)
  IN  IF p >= 0
        THEN IF overrun(t, p)
               THEN [th |-> [t EXCEPT !.error = TRUE], invoked |-> 0]
               ELSE [th |-> computation([t EXCEPT !._last = clk]), invoked |-> 1]
        ELSE [th |-> t, invoked |-> 0]

\* faulty variant of execute: the clock value is stored on every call
execute_stampAlways(t, clk) ==
  LET p == passed(t, clk)
  IN  IF p >= 0
        THEN [th |-> computation([t EXCEPT
                       !.error = IF overrun(t, p) THEN TRUE ELSE @,
                       !._last = clk]),
              invoked |-> 1]
        ELSE [th |-> [t EXCEPT !._last = clk], invoked |-> 0]

\* faulty variant of execute: the due time is stored instead of the clock value
execute_catchUp(t, clk) ==
  LET p == passed(t, clk)
  IN  IF p >= 0
        THEN [th |-> computation([t EXCEPT
                       !.error = IF overrun(t, p) THEN TRUE ELSE @,
                       !._last = Add32(t._last, t._time)]),
              invoked |-> 1]
        ELSE [th |-> t, invoked |-> 0]

\* thread::execute(): the object after the call and the number of
\* computation() calls it made
execute(t, clk) ==
  LET _now == clk
      p    == passed(t, _now)
  IN  IF p >= 0
        THEN [th |-> computation([t EXCEPT
                       !.error = IF overrun(t, p) THEN TRUE ELSE @,
                       !._last = _now]),
              invoked |-> 1]
        ELSE [th |-> t, invoked |-> 0]

\* faulty variant of setTimeout: restarts the timer as the period setters do
setTimeout_rearm(t, to) == [t EXCEPT !.timeout = to, !._last = micros]

setTimeout(t, to) == [t EXCEPT !.timeout = to]
getTimeout(t) == t.timeout

setError(t, err) == [t EXCEPT !.error = err]
resetError(t) == setError(t, FALSE)
getError(t) == t.error

setMicros(t, time, clk) == [t EXCEPT !._time = time, !._last = clk]
setMillis(t, time, clk) == setMicros(t, Mul32(time, 1000), clk)
\* 1000000 * time, modulo 2^32
setSeconds(t, time, clk) == setMicros(t, Mul32(Mul32(time, 1000), 1000), clk)

\* (ulong)(1000000./frequency) for the frequency f[1]/f[2] Hz: the quotient
\* truncated; for frequency 0 the quotient is infinite and its conversion to
\* unsigned long is undefined: any of the values a build produces for it
HzToMicros(f) ==
  IF f[1] = 0 THEN {<<0, 0>>, <<Half - 1, Half - 1>>}
              ELSE {W((1000000 * f[2]) \div f[1])}
setHz(t, frequency, clk) ==
  {setMicros(t, time, clk) : time \in HzToMicros(frequency)}

getMicros(t) == t._time

\* faulty variant of CeilDiv1000: the quotient truncated instead of rounded up
CeilDiv1000_truncate(x) == Div32(x, 1000)

\* (ulong)ceil((double)x / 1000.), double being IEEE binary64: the conversion
\* of a 32-bit x is exact and the quotient, correctly rounded, is an integer
\* only when 1000 divides x
CeilDiv1000(x) ==
  IF Rem32(x, 1000) = 0 THEN Div32(x, 1000) ELSE Add32(Div32(x, 1000), W(1))
getMillis(t) == CeilDiv1000(getMicros(t))
\* ceil(x / 1000000.) = ceil(ceil(x / 1000.) / 1000.)
getSeconds(t) == CeilDiv1000(CeilDiv1000(getMicros(t)))

\* (ulong)(1./ceil(period / 1000000.)): 1/1 is 1, 1/n truncates to 0 for
\* n > 1, and 1/0 is infinite, its conversion undefined
getHz(t) ==
  LET s == getSeconds(t)
  IN  IF s = W(0) THEN {W(0), <<Half - 1, Half - 1>>}
      ELSE IF s = W(1) THEN {W(1)} ELSE {W(0)}

\* thread::thread(): _time(0), timeout(-1), error(false), setMicros(0)
thread(t, clk) ==
  setMicros([t EXCEPT !._time = W(0), !.timeout = -1, !.error = FALSE], W(0), clk)

\* thread::thread(ulong time)
threadTime(t, time, clk) ==
  setMicros([t EXCEPT !._time = time, !.timeout = -1, !.error = FALSE], time, clk)

\* storage of a new object; the timing fields are written by the constructor
\* before anything reads them
Raw(pin) ==
  [_time |-> W(0), _last |-> W(0), timeout |-> 0, error |-> FALSE,
   _pin |-> pin, _state |-> FALSE, level |-> "LOW", mode |-> "INPUT"]

\* faulty variant of _blink: the period stored without restarting the timer
_blink_keepFirst(time, pin, clk1, clk2) ==
  [thread(Raw(pin), clk1) EXCEPT !._time = time, !.mode = "OUTPUT"]

\* _blink::_blink(time, pin): thread() at clock value clk1, then the member
\* initialisers, setMicros(time) at clock value clk2 and pinMode(_pin, OUTPUT)
_blink(time, pin, clk1, clk2) ==
  [setMicros(thread(Raw(pin), clk1), time, clk2) EXCEPT !.mode = "OUTPUT"]

----------------------------------------------------------------------------
(* The values the callers pass *)

\* 0 and 4294967290: the clock at the first call, as true time
ClockStarts == {W(0), <<Half - 1, Half - 6>>}
\* time that passes between two calls: 56, 2000 and 2^31 - 1
Deltas == {W(56), W(2000), <<Half \div 2 - 1, Half - 1>>}
\* time between the two micros() calls of the _blink constructor
CtorDelays == {W(56)}
\* setMicros / thread(time): 0, 100 and 2^31 + 1
MicrosArgs == {W(0), W(100), <<Half \div 2, 1>>}
MillisArgs == {W(5)}
SecondsArgs == {W(5000)}
\* setHz: 3 Hz, as numerator and denominator (the caller passes no 0 Hz)
HzArgs == {<<3, 1>>}
TimeoutArgs == {-1, 0, 1000}

\* int _pins[] = {3,5,6,9}; ulong _time[] = {1E6,5E5,8E5,2E5}; 0-based
_pins == [k \in 0..3 |-> <<3, 5, 6, 9>>[k + 1]]
_time == [k \in 0..3 |-> <<W(1000000), W(500000), W(800000), W(200000)>>[k + 1]]

Void == <<>>

----------------------------------------------------------------------------
(* The calls, as steps of the state machine.  Every call reads micros() at *)
(* the moment it is made; time passes between calls (Tick).                *)

\* the record of the call just made on object k
Did(op, k, arg, n, ret) ==
  hist' = [op |-> op, id |-> k, arg |-> arg, pre |-> t_blink[k],
           preArmed |-> armed[k], invoked |-> n, ret |-> ret]

\* object k becomes t; by names the call if it assigned _last, else it is ""
Becomes(k, t, by) ==
  /\ t_blink' = [t_blink EXCEPT ![k] = t]
  /\ armed' = IF by # "" THEN [armed EXCEPT ![k] = [at |-> now, by |-> by]]
                         ELSE armed

Tick(d) ==
  /\ ticks < MaxTicks
  /\ ticks' = ticks + 1
  /\ now' = AddWide(now, d)
  /\ hist' = [op |-> "Tick", id |-> 0, arg |-> Void, pre |-> Raw(0),
              preArmed |-> [at |-> W(0), by |-> ""], invoked |-> 0, ret |-> Void]
  /\ UNCHANGED <<t_blink, armed, pc, i, fires, polled>>

Execute(k) ==
  LET r == execute(t_blink[k], micros)
  IN  /\ Becomes(k, r.th, IF r.invoked = 1 THEN "execute" ELSE "")
      /\ Did("execute", k, Void, r.invoked, Void)
      /\ UNCHANGED <<now, pc, i, ticks, fires, polled>>

SetTimeout(k, to) ==
  /\ Becomes(k, setTimeout(t_blink[k], to), "")
  /\ Did("setTimeout", k, to, 0, Void)
  /\ UNCHANGED <<now, pc, i, ticks, fires, polled>>

GetTimeout(k) ==
  /\ Did("getTimeout", k, Void, 0, getTimeout(t_blink[k]))
  /\ UNCHANGED <<now, t_blink, armed, pc, i, ticks, fires, polled>>

SetError(k, err) ==
  /\ Becomes(k, setError(t_blink[k], err), "")
  /\ Did("setError", k, err, 0, Void)
  /\ UNCHANGED <<now, pc, i, ticks, fires, polled>>

ResetError(k) ==
  /\ Becomes(k, resetError(t_blink[k]), "")
  /\ Did("resetError", k, Void, 0, Void)
  /\ UNCHANGED <<now, pc, i, ticks, fires, polled>>

GetError(k) ==
  /\ Did("getError", k, Void, 0, getError(t_blink[k]))
  /\ UNCHANGED <<now, t_blink, armed, pc, i, ticks, fires, polled>>

SetMicros(k, time) ==
  /\ Becomes(k, setMicros(t_blink[k], time, micros), "set")
  /\ Did("setMicros", k, time, 0, Void)
  /\ UNCHANGED <<now, pc, i, ticks, fires, polled>>

SetMillis(k, time) ==
  /\ Becomes(k, setMillis(t_blink[k], time, micros), "set")
  /\ Did("setMillis", k, time, 0, Void)
  /\ UNCHANGED <<now, pc, i, ticks, fires, polled>>

SetSeconds(k, time) ==
  /\ Becomes(k, setSeconds(t_blink[k], time, micros), "set")
  /\ Did("setSeconds", k, time, 0, Void)
  /\ UNCHANGED <<now, pc, i, ticks, fires, polled>>

SetHz(k, frequency) ==
  /\ \E t \in setHz(t_blink[k], frequency, micros) : Becomes(k, t, "set")
  /\ Did("setHz", k, frequency, 0, Void)
  /\ UNCHANGED <<now, pc, i, ticks, fires, polled>>

GetMicros(k) ==
  /\ Did("getMicros", k, Void, 0, getMicros(t_blink[k]))
  /\ UNCHANGED <<now, t_blink, armed, pc, i, ticks, fires, polled>>

GetMillis(k) ==
  /\ Did("getMillis", k, Void, 0, getMillis(t_blink[k]))
  /\ UNCHANGED <<now, t_blink, armed, pc, i, ticks, fires, polled>>

GetSeconds(k) ==
  /\ Did("getSeconds", k, Void, 0, getSeconds(t_blink[k]))
  /\ UNCHANGED <<now, t_blink, armed, pc, i, ticks, fires, polled>>

GetHz(k) ==
  /\ \E f \in getHz(t_blink[k]) : Did("getHz", k, Void, 0, f)
  /\ UNCHANGED <<now, t_blink, armed, pc, i, ticks, fires, polled>>

----------------------------------------------------------------------------
(* Spec: one task object under an arbitrary caller of its public methods   *)

\* the object right after `new`: built by thread(time) at clock value
\* micros, or by _blink(time, pin) whose two micros() calls are d apart
InitThread(s, time) ==
  /\ now = s
  /\ t_blink = [k \in {0} |->
                 [threadTime(Raw(_pins[0]), time, micros) EXCEPT !.mode = "OUTPUT"]]
  /\ hist = [op |-> "thread", id |-> 0, arg |-> time, pre |-> Raw(_pins[0]),
             preArmed |-> [at |-> s, by |-> "construct"], invoked |-> 0,
             ret |-> Void]

InitBlink(s, time, d) ==
  /\ now = AddWide(s, d)
  /\ t_blink = [k \in {0} |->
                 _blink(time, _pins[0], <<s[1] % Half, s[2]>>, micros)]
  /\ hist = [op |-> "_blink", id |-> 0, arg |-> time,
             pre |-> thread(Raw(_pins[0]), <<s[1] % Half, s[2]>>),
             preArmed |-> [at |-> s, by |-> "construct"], invoked |-> 0,
             ret |-> Void]

Init ==
  /\ \E s \in ClockStarts :
       \/ \E time \in MicrosArgs : InitThread(s, time)
       \/ \E d \in CtorDelays : InitBlink(s, W(100), d)
  /\ armed = [k \in {0} |-> [at |-> now, by |-> "construct"]]
  /\ pc = "api"
  /\ i = 0
  /\ ticks = 0
  /\ fires = [k \in {0} |-> 0]
  /\ polled = <<>>

Next ==
  \/ \E d \in Deltas : Tick(d)
  \/ \E k \in DOMAIN t_blink : Execute(k)
  \/ \E k \in DOMAIN t_blink : \E to \in TimeoutArgs : SetTimeout(k, to)
  \/ \E k \in DOMAIN t_blink : GetTimeout(k)
  \/ \E k \in DOMAIN t_blink : \E err \in BOOLEAN : SetError(k, err)
  \/ \E k \in DOMAIN t_blink : ResetError(k)
  \/ \E k \in DOMAIN t_blink : GetError(k)
  \/ \E k \in DOMAIN t_blink : \E time \in MicrosArgs : SetMicros(k, time)
  \/ \E k \in DOMAIN t_blink : \E time \in MillisArgs : SetMillis(k, time)
  \/ \E k \in DOMAIN t_blink : \E time \in SecondsArgs : SetSeconds(k, time)
  \/ \E k \in DOMAIN t_blink : \E f \in HzArgs : SetHz(k, f)
  \/ \E k \in DOMAIN t_blink : GetMicros(k)
  \/ \E k \in DOMAIN t_blink : GetMillis(k)
  \/ \E k \in DOMAIN t_blink : GetSeconds(k)
  \/ \E k \in DOMAIN t_blink : GetHz(k)

Spec == Init /\ [][Next]_vars

----------------------------------------------------------------------------
(* SpecLoop: the sketch.  setup() builds the four _blink objects, loop()   *)
(* polls them; the position inside either function is <<pc, i>>.  The      *)
(* example leaves every timeout disabled; a sketch that wants deadline     *)
(* misses reported calls setTimeout on a task.                             *)

\* int _n = 4
_n == 4

\* time that passes between two polls: 200000 and 1000000
LoopDeltas == {W(200000), W(1000000)}
LoopTimeouts == {100000}

\* t_blink[i] = new _blink(_time[i], _pins[i]); the two micros() calls of
\* the constructor are d apart
SetupStep(d) ==
  /\ pc = "setup"
  /\ now' = AddWide(now, d)
  /\ t_blink' = [k \in 0..i |->
                  IF k = i THEN _blink(_time[i], _pins[i], micros,
                                       <<now'[1] % Half, now'[2]>>)
                           ELSE t_blink[k]]
  /\ armed' = [k \in 0..i |->
                IF k = i THEN [at |-> now', by |-> "construct"] ELSE armed[k]]
  /\ hist' = [op |-> "_blink", id |-> i, arg |-> _time[i],
              pre |-> thread(Raw(_pins[i]), micros),
              preArmed |-> [at |-> now, by |-> "construct"], invoked |-> 0,
              ret |-> Void]
  /\ fires' = [k \in 0..i |-> 0]
  /\ IF i + 1 < _n THEN i' = i + 1 /\ pc' = pc
                   ELSE i' = 0 /\ pc' = "loop"
  /\ UNCHANGED <<ticks, polled>>

\* the objects polled last, after object k was polled
Window(k) ==
  IF Len(polled) < _n THEN Append(polled, k) ELSE Append(Tail(polled), k)

\* t_blink[i]->execute() inside loop()
LoopPoll ==
  /\ pc = "loop"
  /\ LET r == execute(t_blink[i], micros)
     IN  /\ Becomes(i, r.th, IF r.invoked = 1 THEN "execute" ELSE "")
         /\ Did("execute", i, Void, r.invoked, Void)
  /\ polled' = Window(i)

\* faulty variant of LoopStep: the loop bound one too small
LoopStep_skipLast ==
  /\ LoopPoll
  /\ fires' = [fires EXCEPT ![i] = @ + hist'.invoked]
  /\ i' = (i + 1) % (_n - 1)
  /\ UNCHANGED <<now, pc, ticks>>

\* t_blink[i]->execute(); and on to the next i, or to the next loop()
LoopStep ==
  /\ LoopPoll
  /\ fires' = [fires EXCEPT ![i] = @ + hist'.invoked]
  /\ i' = (i + 1) % _n
  /\ UNCHANGED <<now, pc, ticks>>

\* the sketch enables the timeout of task k
LoopSetTimeout(k, to) ==
  /\ pc = "loop"
  /\ SetTimeout(k, to)

InitLoop ==
  /\ now = W(0)
  /\ t_blink = <<>>
  /\ armed = <<>>
  /\ pc = "setup"
  /\ i = 0
  /\ ticks = 0
  /\ fires = <<>>
  /\ polled = <<>>
  /\ hist = [op |-> "boot", id |-> 0, arg |-> Void, pre |-> Raw(0),
             preArmed |-> [at |-> W(0), by |-> ""], invoked |-> 0, ret |-> Void]

NextLoop ==
  \/ \E d \in CtorDelays : SetupStep(d)
  \/ LoopStep
  \/ \E d \in LoopDeltas : Tick(d)
  \/ \E k \in DOMAIN t_blink : \E to \in LoopTimeouts : LoopSetTimeout(k, to)

SpecLoop == InitLoop /\ [][NextLoop]_vars

TypeOK == ticks \in 0..MaxTicks

----------------------------------------------------------------------------
(* SpecUnits: the unit conversions.  One object, built with any of the     *)
(* periods below, on which the period setters and getters are called; the  *)
(* clock stands still, as the conversions do not depend on it.             *)

\* periods in microseconds: 0, 1, 1000, 2500, 1000000, 1000001, 2^32 - 1
UnitMicros == {W(0), W(1), W(1000), W(2500), W(1000000), W(1000001),
               <<Half - 1, Half - 1>>}
\* 4294967 is the last number of milliseconds below 2^32 microseconds
UnitMillis == {W(0), W(5), W(4294967), W(4294968)}
\* 4294 is the last number of seconds below 2^32 microseconds
UnitSeconds == {W(1), W(4294), W(4295), W(5000)}
\* 1, 2, 3, 1000000 and 1/2 Hz, as numerator and denominator
UnitHz == {<<1, 1>>, <<2, 1>>, <<3, 1>>, <<1000000, 1>>, <<1, 2>>}

InitUnits ==
  /\ \E time \in UnitMicros : InitThread(W(0), time)
  /\ armed = [k \in {0} |-> [at |-> now, by |-> "construct"]]
  /\ pc = "api"
  /\ i = 0
  /\ ticks = 0
  /\ fires = [k \in {0} |-> 0]
  /\ polled = <<>>

NextUnits ==
  \/ \E k \in DOMAIN t_blink : \E time \in UnitMicros : SetMicros(k, time)
  \/ \E k \in DOMAIN t_blink : \E time \in UnitMillis : SetMillis(k, time)
  \/ \E k \in DOMAIN t_blink : \E time \in UnitSeconds : SetSeconds(k, time)
  \/ \E k \in DOMAIN t_blink : \E f \in UnitHz : SetHz(k, f)
  \/ \E k \in DOMAIN t_blink : GetMicros(k)
  \/ \E k \in DOMAIN t_blink : GetMillis(k)
  \/ \E k \in DOMAIN t_blink : GetSeconds(k)
  \/ \E k \in DOMAIN t_blink : GetHz(k)

SpecUnits == InitUnits /\ [][NextUnits]_vars

----------------------------------------------------------------------------
(* What the properties speak about: the call just made (hist), the object  *)
(* after it (Obj) and before it (Pre), and true time                       *)

Setters == {"setMicros", "setMillis", "setSeconds", "setHz"}
Getters == {"getTimeout", "getError", "getMicros", "getMillis", "getSeconds",
            "getHz"}

Called(op) == hist.op = op
Obj == t_blink[hist.id]
Pre == hist.pre

\* true time between the last assignment of _last before the call and the call
Elapsed == SubWide(now, hist.preArmed.at)

\* e - p lies in [-2^31, 2^31), and its value then
InHalfRange(e, p) ==
  LET d == SubWide(e, p)
  IN  d[1] >= -(Half \div 2) /\ d[1] < Half \div 2
Diff(e, p) ==
  LET d == SubWide(e, p)
  IN  d[1] * Half + d[2]

\* now - (lastFireTime + period) of the call, in the clock's arithmetic, signed
Lateness == ToLong(Sub32(micros, Add32(Pre._last, Pre._time)))

\* the call fired and was a deadline miss
Miss == hist.invoked = 1 /\ Pre.timeout >= 0 /\ Lateness >= Pre.timeout

\* a * k without reduction
MulWide(a, k) ==
  LET p == a[2] * k
  IN  <<a[1] * k + p \div Half, p % Half>>

\* the number of microseconds the argument of a period setter stands for
MicrosOf(op, arg) ==
  CASE op = "setMicros"  -> arg
    [] op = "setMillis"  -> MulWide(arg, 1000)
    [] op = "setSeconds" -> MulWide(MulWide(arg, 1000), 1000)
    [] op = "setHz"      -> W((1000000 * arg[2]) \div arg[1])

----------------------------------------------------------------------------
(* The claims *)

\* C1: for every period p, a Poll made when fewer than p ticks have elapsed
\* since the construction or the SetPeriod call that armed the task does not
\* invoke the payload.
C1_NotDueBeforePeriod ==
  (/\ Called("execute")
   /\ hist.preArmed.by \in {"construct", "set"}
   /\ ~GeWide(Elapsed, Pre._time))
  => hist.invoked = 0

\* C2: a Poll at or after the due time, less than 2^31 ticks late, invokes the
\* payload exactly once and sets lastFireTime to the clock value it read; a
\* Poll that follows a firing Poll at the same clock reading fires only if the
\* period is 0; with period 0 every Poll fires.
C2_FiresOncePerDuePoll ==
  Called("execute") =>
    /\ (GeWide(Elapsed, Pre._time) /\ InHalfRange(Elapsed, Pre._time))
         => /\ hist.invoked = 1
            /\ Obj._state # Pre._state
            /\ Obj._last = micros
    /\ (hist.preArmed.by = "execute" /\ hist.preArmed.at = now
          /\ hist.invoked = 1)
         => Pre._time = W(0)
    /\ (Pre._time = W(0) /\ InHalfRange(Elapsed, W(0))) => hist.invoked = 1

\* C3: for every lastFireTime L, period p < 2^31 and true elapsed time e with
\* e - p in [-2^31, 2^31), a Poll at clock reading (L + e) mod 2^32 invokes the
\* payload if and only if e >= p, wrapped counter or not.
C3_DueAcrossWrap ==
  (/\ Called("execute")
   /\ Pre._time[1] < Half \div 2
   /\ InHalfRange(Elapsed, Pre._time))
  => /\ micros = Add32(Pre._last, <<Elapsed[1] % Half, Elapsed[2]>>)
     /\ hist.invoked = 1 <=> GeWide(Elapsed, Pre._time)

\* a Poll that fired with the counter wrapped since lastFireTime
C3_Witness ==
  /\ Called("execute")
  /\ Pre._time = W(100)
  /\ InHalfRange(Elapsed, Pre._time)
  /\ ~GeWide(micros, Pre._last)
  /\ hist.invoked = 1

\* lastFireTime 4294967290, period 100, Poll at clock reading 50, 56 ticks later
C4_Case ==
  /\ Called("execute")
  /\ Pre._last = <<Half - 1, Half - 6>>
  /\ Pre._time = W(100)
  /\ micros = W(50)
  /\ Elapsed = W(56)

\* C4 as stated: in that case the Poll invokes the payload.
C4_DueAt50 == C4_Case => hist.invoked = 1

\* C4, amended: in that case the task is not due (56 < 100): the Poll does not
\* invoke the payload and leaves the task as it was.
C4_NotDueAt50 == C4_Case => hist.invoked = 0 /\ Obj = Pre

C4_Witness == C4_Case /\ hist.invoked = 0

\* C5: Poll changes errorFlag only by setting it, exactly when the task fires
\* with a threshold >= 0 and a lateness >= the threshold; the lateness is the
\* true one while that is below half the clock range; a negative threshold
\* never sets the flag.
C5_ErrorOnMiss ==
  Called("execute") =>
    /\ Obj.error = (Pre.error \/ Miss)
    /\ InHalfRange(Elapsed, Pre._time) => Lateness = Diff(Elapsed, Pre._time)
    /\ Pre.timeout < 0 => Obj.error = Pre.error

\* threshold 1000, Poll 2000 ticks after the due time: the flag is set
C5_Witness ==
  /\ Called("execute")
  /\ Pre.timeout = 1000
  /\ ~Pre.error
  /\ InHalfRange(Elapsed, Pre._time)
  /\ Diff(Elapsed, Pre._time) = 2000
  /\ Obj.error

\* C6: errorFlag, once true, stays true through Poll, the period setters,
\* SetTimeout and the getters; only ResetError() and SetError(false) clear it;
\* only a deadline miss and SetError(true) set it; GetError() returns it.
C6_ErrorSticky ==
  /\ (hist.op \in {"execute", "setTimeout"} \cup Setters \cup Getters
        /\ Pre.error)
       => Obj.error
  /\ Called("setError") => Obj.error = hist.arg
  /\ Called("resetError") => ~Obj.error
  /\ Called("getError") => hist.ret = Obj.error
  /\ (hist.op \in {"execute", "setTimeout", "setError", "resetError"}
                    \cup Setters \cup Getters
        /\ ~Pre.error /\ Obj.error)
       => \/ Called("setError") /\ hist.arg
          \/ Called("execute") /\ Miss

\* a Poll that fired on time with the flag already set, and left it set
C6_Witness ==
  /\ Called("execute")
  /\ Pre.error
  /\ Pre.timeout = 1000
  /\ hist.invoked = 1
  /\ Lateness < 1000
  /\ Obj.error

\* C7: a Poll of the dispatch loop that sets errorFlag, or that is due while
\* errorFlag is already true, still invokes the payload exactly once, sets
\* lastFireTime to the clock value it read, and the loop moves on to the next
\* task.
C7_MissNeverSuppresses ==
  (/\ pc = "loop"
   /\ Called("execute")
   /\ \/ ~Pre.error /\ Obj.error
      \/ /\ Pre.error
         /\ GeWide(Elapsed, Pre._time)
         /\ InHalfRange(Elapsed, Pre._time))
  => /\ hist.invoked = 1
     /\ Obj._state # Pre._state
     /\ Obj._last = micros
     /\ i = (hist.id + 1) % _n

\* a Poll of the loop that set the flag, with tasks left to poll
C7_Witness ==
  /\ pc = "loop"
  /\ Called("execute")
  /\ ~Pre.error
  /\ Obj.error
  /\ hist.invoked = 1
  /\ i = hist.id + 1

\* C8: a period setter sets the period to the microsecond equivalent of its
\* argument and lastFireTime to the clock value it read, leaves the threshold
\* and errorFlag alone, invokes no payload, and leaves the task not due unless
\* the new period is 0.
C8_SettersRearm ==
  hist.op \in Setters =>
    /\ Obj._time = MicrosOf(hist.op, hist.arg)
    /\ Obj._last = micros
    /\ Obj.timeout = Pre.timeout
    /\ Obj.error = Pre.error
    /\ hist.invoked = 0
    /\ Obj._state = Pre._state
    /\ execute(Obj, micros).invoked = 1 => Obj._time = W(0)

\* C9 as stated: no public operation but Poll changes lastFireTime.
C9_OnlyPollWritesLast ==
  hist.op \in Setters \cup Getters \cup {"setTimeout", "setError", "resetError"}
    => Obj._last = Pre._last

\* C9, amended: lastFireTime is written by a firing Poll and by the four
\* period setters, each storing the clock value it read; SetTimeout, SetError,
\* ResetError, the getters and a Poll that is not due leave it unchanged.
C9_LastWriters ==
  /\ hist.op \in Getters \cup {"setTimeout", "setError", "resetError"}
       => Obj._last = Pre._last
  /\ hist.op \in Setters => Obj._last = micros
  /\ Called("execute")
       => Obj._last = IF hist.invoked = 1 THEN micros ELSE Pre._last

\* SetTimeout called when the clock has moved on since lastFireTime was written
C9_Witness ==
  /\ Called("setTimeout")
  /\ Obj._last # micros
  /\ Obj._last = Pre._last

\* C10: a constructed task has lastFireTime = the clock value at construction,
\* the given period, threshold -1, errorFlag false and no payload invoked; for
\* _blink, built by thread() and a later setMicros(time), lastFireTime is the
\* later reading.
C10_Constructed ==
  hist.op \in {"thread", "_blink"} =>
    /\ Obj._last = micros
    /\ armed[hist.id].at = now
    /\ Obj._time = hist.arg
    /\ Obj.timeout = -1
    /\ ~Obj.error
    /\ hist.invoked = 0
    /\ ~Obj._state
    /\ Called("_blink") =>
         Pre._last = <<hist.preArmed.at[1] % Half, hist.preArmed.at[2]>>

\* a _blink whose setMicros read the clock later than its thread()
C10_Witness ==
  /\ Called("_blink")
  /\ Obj._last # Pre._last
  /\ Obj._last = micros
----------------------------------------------------------------------------
(* SpecWrap: one object polled at long intervals.  The periods reach 2^31  *)
(* and the clock advances reach beyond the range of the 32-bit counter.    *)

\* periods 0, 100 and 2^31
WrapPeriods == {W(0), W(100), <<Half \div 2, 0>>}
\* time between two calls: 56, 2^31 - 1, 2^32 + 50 and 3 * 2^31
WrapDeltas == {W(56), <<Half \div 2 - 1, Half - 1>>, <<Half, 50>>,
               <<Half + Half \div 2, 0>>}

InitWrap ==
  /\ \E s \in ClockStarts : \E time \in WrapPeriods : InitThread(s, time)
  /\ armed = [k \in {0} |-> [at |-> now, by |-> "construct"]]
  /\ pc = "api"
  /\ i = 0
  /\ ticks = 0
  /\ fires = [k \in {0} |-> 0]
  /\ polled = <<>>

NextWrap ==
  \/ \E d \in WrapDeltas : Tick(d)
  \/ \E k \in DOMAIN t_blink : Execute(k)
  \/ \E k \in DOMAIN t_blink : \E time \in WrapPeriods : SetMicros(k, time)

SpecWrap == InitWrap /\ [][NextWrap]_vars
----------------------------------------------------------------------------
(* SpecLive: the sketch running forever.  main() calls loop() again and    *)
(* again and the clock never stops.  Time passes at most once during a     *)
(* loop() call, before any of its polls, and less than 2^30 of it, so that *)
(* less than 2^31 passes between two polls of the same object.  Only       *)
(* micros() enters execute(), hence the time is kept modulo 2^32 here, and *)
(* ticks tells whether the clock has advanced during the current loop()    *)
(* call.                                                                   *)

\* time that passes at once: 2^29 and 3 * 2^28
LiveDeltas == {<<Half \div 8, 0>>, <<3 * (Half \div 16), 0>>}

LiveTick(d) ==
  /\ pc = "loop"
  /\ ticks = 0
  /\ ticks' = 1
  /\ now' = LET n == AddWide(now, d) IN <<n[1] % Half, n[2]>>
  /\ hist' = [op |-> "Tick", id |-> 0, arg |-> Void, pre |-> Raw(0),
              preArmed |-> [at |-> W(0), by |-> ""], invoked |-> 0, ret |-> Void]
  /\ UNCHANGED <<t_blink, armed, pc, i, fires, polled>>

\* t_blink[i]->execute(); and on to the next i, or to the next loop()
LivePoll ==
  /\ LoopPoll
  /\ i' = (i + 1) % _n
  /\ ticks' = IF i' = 0 THEN 0 ELSE ticks
  /\ UNCHANGED <<now, pc, fires>>

NextLive ==
  \/ \E d \in CtorDelays : SetupStep(d)
  \/ LivePoll
  \/ \E d \in LiveDeltas : LiveTick(d)

SpecLive ==
  /\ InitLoop
  /\ [][NextLive]_vars
  /\ WF_vars(\E d \in CtorDelays : SetupStep(d))
  /\ WF_vars(LivePoll)
  /\ WF_vars(\E d \in LiveDeltas : LiveTick(d))

\* r is the least whole number of units of u microseconds that covers x
IsCeiling(r, x, u) ==
  LET Units(n) == IF u = 1000 THEN MulWide(n, 1000)
                              ELSE MulWide(MulWide(n, 1000), 1000)
  IN  /\ GeWide(Units(r), x)
      /\ r # W(0) => ~GeWide(Units(Sub32(r, W(1))), x)

\* the argument of the setter just called, in microseconds, fits 32 bits
Fits == MicrosOf(hist.op, hist.arg)[1] < Half

\* a period below 2^31, as a number
Num(a) == a[1] * Half + a[2]

\* C11: after setMillis(m) getMicros() returns 1000*m, after setSeconds(m) it
\* returns 1000000*m, for every 32-bit m, and after setHz(f) it returns
\* 1000000/f.
C11_StoresMicrosEquivalent ==
  hist.op \in {"setMillis", "setSeconds", "setHz"}
    => getMicros(Obj) = MicrosOf(hist.op, hist.arg)

C13_HzReadBack ==
  /\ (Called("setHz") /\ hist.arg[2] = 1 /\ hist.arg[1] >= 1
        /\ 1000000 % hist.arg[1] = 0)
       => getHz(Obj) = {W(hist.arg[1])}
  /\ (Called("getHz") /\ Pre._time # W(0) /\ Pre._time[1] < Half \div 2
        /\ 1000000 % Num(Pre._time) = 0)
       => hist.ret = W(1000000 \div Num(Pre._time))

\* C14: loop() polls the same _n objects in construction order, none skipped
\* and none twice: object i + 1 (object 0 after the last) is polled next after
\* object i, so the _n objects polled last are all different, whatever fired
\* or raised its error flag; after setup() the set of objects stays the same.
C14_FixedOrder ==
  /\ pc = "loop" => /\ DOMAIN t_blink = 0..(_n - 1)
                    /\ \A k \in DOMAIN t_blink : t_blink[k]._pin = _pins[k]
  /\ pc = "setup" => polled = <<>>
  /\ \A j \in 1..(Len(polled) - 1) : polled[j + 1] = (polled[j] + 1) % _n
  /\ polled # <<>> =>
       /\ i = (polled[Len(polled)] + 1) % _n
       /\ Len(polled) < _n => polled[1] = 0
  /\ Len(polled) = _n => {polled[j] : j \in 1.._n} = 0..(_n - 1)
  /\ (pc = "loop" /\ Called("execute")) => hist.id = polled[Len(polled)]

\* loop() has started over after an iteration in which an object fired with
\* its error flag raised
C14_Witness ==
  /\ polled = <<1, 2, 3, 0>>
  /\ \E k \in DOMAIN t_blink : fires[k] > 0 /\ t_blink[k].error

C16_NotDuePollIdle ==
  Called("execute") =>
    /\ hist.invoked = 0 <=> passed(Pre, micros) < 0
    /\ hist.invoked = 0 => Obj = Pre /\ armed[hist.id] = hist.preArmed
    /\ Obj._time = Pre._time
    /\ Obj.timeout = Pre.timeout

\* a Poll before the due time, the clock having moved on, deadline on
C16_Witness ==
  /\ Called("execute")
  /\ hist.invoked = 0
  /\ micros # Pre._last
  /\ Pre.timeout >= 0
  /\ ~Pre.error

\* C19: in every state _last is the value micros() returned at the latest of
\* the construction, the last period setter call and the last firing
\* execute(), a moment not after the present; it is never the due time.
C19_LastIsClockReading ==
  /\ \A k \in DOMAIN t_blink :
       /\ armed[k].by \in {"construct", "set", "execute"}
       /\ t_blink[k]._last = <<armed[k].at[1] % Half, armed[k].at[2]>>
       /\ GeWide(now, armed[k].at)
  /\ (hist.op \in Setters \/ (Called("execute") /\ hist.invoked = 1))
       => armed[hist.id].at = now /\ Obj._last = micros
  /\ (hist.op \in Getters \cup {"setTimeout", "setError", "resetError"}
        \/ (Called("execute") /\ hist.invoked = 0))
       => armed[hist.id] = hist.preArmed /\ Obj._last = Pre._last

\* a Poll that fired late: the value stored is the reading, not the due time
C19_Witness ==
  /\ Called("execute")
  /\ hist.invoked = 1
  /\ hist.preArmed.by = "execute"
  /\ Obj._last = micros
  /\ Obj._last # Add32(Pre._last, Pre._time)

\* C17: two successive computation() calls of an object whose period p <= 2^31
\* was not set in between are at least p of true time apart, however the
\* polls and the clock advances fall and however often the counter wrapped;
\* the firing execute() stores the time it fired at, so the next period is
\* counted from there.
C17_AtLeastPeriodApart ==
  (/\ Called("execute")
   /\ hist.invoked = 1
   /\ hist.preArmed.by = "execute"
   /\ GeWide(<<Half \div 2, 0>>, Pre._time))
  => /\ GeWide(Elapsed, Pre._time)
     /\ Obj._last = micros
     /\ armed[hist.id] = [at |-> now, by |-> "execute"]

\* period 2^31: fired again after more than 2^32 of true time
C17_Witness ==
  /\ Called("execute")
  /\ hist.invoked = 1
  /\ hist.preArmed.by = "execute"
  /\ Pre._time = <<Half \div 2, 0>>
  /\ Elapsed[1] >= Half

\* C18: when loop() keeps being called, the clock keeps advancing and less
\* than 2^31 passes between two polls of the same object, every object (each
\* has a period below 2^31 and none is set again) has its computation()
\* called again and again, forever.
C18_EveryTaskFiresForever ==
  \A k \in 0..(_n - 1) :
    []<>(Called("execute") /\ hist.id = k /\ hist.invoked = 1)

\* the object with the longest period fired after the counter had wrapped
C18_Witness ==
  /\ pc = "loop"
  /\ Called("execute")
  /\ hist.id = 0
  /\ hist.invoked = 1
  /\ ~GeWide(micros, Pre._last)

====
